---------------------------- MODULE Spec2Model ----------------------------
(***************************************************************************)
(* Model of the todo HTTP service.                                         *)
(*                                                                         *)
(*   src/index.js          the server with the auth layer                  *)
(*                         (signup, login, GET/POST/DELETE todos)          *)
(*   src/unnamed/part_000  a second server of the repository that serves   *)
(*                         GET/POST/DELETE todos on the same port and      *)
(*                         mounts no auth middleware                       *)
(*                                                                         *)
(* Both servers listen on PORT 3000, so one behaviour runs one of them:    *)
(* `server` is chosen in Init and never changes.  Every request is one     *)
(* atomic step (synchronous file I/O, single-threaded event loop).         *)
(***************************************************************************)
EXTENDS Integers, Sequences, FiniteSets, TLC

VARIABLES
    server,     \* which file of the repository is running
    todosFile,  \* content of todos.json
    usersFile,  \* content of users.json
    req,        \* the last request received
    res,        \* the response sent to it
    posted      \* history: todos created by a 201 POST and not deleted since

vars == <<server, todosFile, usersFile, req, res, posted>>

----------------------------------------------------------------------------
(* Bounds of the model *)

MaxTodos == 3
MaxUsers == 2
MaxJoint == 1

(* Program constants *)

JWT_SECRET == "dev-secret"

----------------------------------------------------------------------------
(* JSON values as they arrive in a parsed request body.  `type` is the      *)
(* JavaScript type of the value, `val` its printed form.                    *)

JV(t, v) == [type |-> t, val |-> v]
JUndef == JV("undefined", "")
JStr(s) == JV("string", s)
JNum(n) == JV("number", n)
JObj(s) == JV("object", s)

\* JavaScript truthiness, as used by `!text`, `!username || !password`
Truthy(v) ==
    CASE v.type = "undefined" -> FALSE
      [] v.type = "null" -> FALSE
      [] v.type = "string" -> v.val # ""
      [] v.type = "number" -> v.val # "0"
      [] v.type = "boolean" -> v.val = "true"
      [] OTHER -> TRUE

\* `stored === given` where `stored` was produced by JSON.parse of the file
\* and `given` by JSON.parse of the request body: primitives compare by type
\* and value, objects and arrays by reference, and the two references are
\* never the same object.
StrictEq(stored, given) ==
    /\ stored.type # "object"
    /\ stored = given

----------------------------------------------------------------------------
(* Files.  kind is "absent" (no such file), "blank" (empty or whitespace    *)
(* only), "malformed" (JSON.parse throws), "nonarray" (valid JSON that is   *)
(* not an array, e.g. {}), or "array" with the parsed items.                *)

File(k, xs) == [kind |-> k, items |-> xs]
Absent == File("absent", <<>>)
Blank == File("blank", <<>>)
Malformed == File("malformed", <<>>)
NonArray == File("nonarray", <<>>)
\* JSON.stringify(list, null, 2) of a list of records, as file content
Stringify(xs) == File("array", xs)
EmptyArray == Stringify(<<>>)

Read(isArr, xs, f, cs) == [isArray |-> isArr, items |-> xs, file |-> f, calls |-> cs]


----------------------------------------------------------------------------
(* Responses and requests *)

NoToken == <<>>

Response(st, k, msg, xs, tok, cs) ==
    [status |-> st, kind |-> k, message |-> msg, items |-> xs, token |-> tok,
     calls |-> cs]

\* Express's default error handler, reached when a handler throws
Uncaught(cs) == Response(500, "error", "TypeError", <<>>, NoToken, cs)

NoHeader == [prefix |-> "", rest |-> <<>>]
NoBody == [text |-> JUndef, username |-> JUndef, password |-> JUndef]

Request(route, h, id, b) == [route |-> route, header |-> h, id |-> id, body |-> b]

\* jwt.verify(token, secret): throws unless the token is a well-formed JWT
\* signed with `secret` whose exp has not passed
JwtVerifies(token, secret) ==
    /\ token.wellFormed
    /\ token.secret = secret
    /\ ~token.expired

\* jwt.sign(payload, secret, {expiresIn: "1h"})
Jwt(wf, secret, expired, sub, username) ==
    [wellFormed |-> wf, secret |-> secret, expired |-> expired, sub |-> sub,
     username |-> username]

JwtSign(sub, username, secret) ==
    [wellFormed |-> TRUE, secret |-> secret, expired |-> FALSE,
     sub |-> sub, username |-> username]

----------------------------------------------------------------------------
(* src/index.js: file helpers *)

readTodos(f) ==
    CASE f.kind = "absent" -> Read(TRUE, <<>>, EmptyArray, {"readTodos"})
      [] f.kind = "blank" -> Read(TRUE, <<>>, f, {"readTodos"})
      [] f.kind = "malformed" -> Read(TRUE, <<>>, EmptyArray, {"readTodos"})
      [] f.kind = "nonarray" -> Read(FALSE, <<>>, f, {"readTodos"})
      [] OTHER -> Read(TRUE, f.items, f, {"readTodos"})

writeTodos(todos) == Stringify(todos)

readUsers(f) ==
    CASE f.kind = "absent" -> Read(TRUE, <<>>, EmptyArray, {"readUsers"})
      [] f.kind = "blank" -> Read(TRUE, <<>>, f, {"readUsers"})
      [] f.kind = "malformed" -> Read(TRUE, <<>>, EmptyArray, {"readUsers"})
      [] f.kind = "nonarray" -> Read(FALSE, <<>>, f, {"readUsers"})
      [] OTHER -> Read(TRUE, f.items, f, {"readUsers"})

writeUsers(users) == Stringify(users)

(* src/index.js: auth middleware.  Returns whether next() is called and,   *)
(* when it is not, the response sent.                                       *)

auth(h) ==
    LET token == IF h.prefix = "Bearer " THEN h.rest ELSE <<>>
    IN  IF token = <<>>
        THEN [next |-> FALSE,
              res |-> Response(401, "message", "Missing Authorization header",
                               <<>>, NoToken, {"auth"})]
        ELSE IF JwtVerifies(token[1], JWT_SECRET)
        THEN [next |-> TRUE,
              res |-> Response(0, "none", "", <<>>, NoToken, {"auth"})]
        ELSE [next |-> FALSE,
              res |-> Response(401, "message", "Invalid or expired token",
                               <<>>, NoToken, {"auth"})]

\* faulty variant of the filter: removes the first match only (findIndex/splice)
RECURSIVE FilterOutFirst(_, _)
FilterOutFirst(todos, id) ==
    IF todos = <<>> THEN <<>>
    ELSE IF Head(todos).id # id
         THEN <<Head(todos)>> \o FilterOutFirst(Tail(todos), id)
         ELSE Tail(todos)

\* todos.filter((todo) => todo.id !== id)
RECURSIVE FilterOut(_, _)
FilterOut(todos, id) ==
    IF todos = <<>> THEN <<>>
    ELSE IF Head(todos).id # id
         THEN <<Head(todos)>> \o FilterOut(Tail(todos), id)
         ELSE FilterOut(Tail(todos), id)

\* users.find(pred): the first element satisfying pred, as a sequence of
\* length 0 (undefined) or 1
RECURSIVE FindByName(_, _)
FindByName(users, username) ==
    IF users = <<>> THEN <<>>
    ELSE IF StrictEq(Head(users).username, username)
         THEN <<Head(users)>>
         ELSE FindByName(Tail(users), username)

\* faulty variant of the credentials lookup: the password is not compared
FindIgnoringPassword(users, username, password) == FindByName(users, username)

RECURSIVE FindByCredentials(_, _, _)
FindByCredentials(users, username, password) ==
    IF users = <<>> THEN <<>>
    ELSE IF /\ StrictEq(Head(users).username, username)
            /\ StrictEq(Head(users).password, password)
         THEN <<Head(users)>>
         ELSE FindByCredentials(Tail(users), username, password)

----------------------------------------------------------------------------
(* src/index.js: route handlers, each as the pair (file after, response)   *)

Out(f, r) == [file |-> f, res |-> r]

getTodosHandler(f) ==
    LET r == readTodos(f)
    IN  Out(r.file,
            Response(200, IF r.isArray THEN "list" ELSE "raw", "", r.items,
                     NoToken, {"handler"} \cup r.calls))

\* faulty variant of POST /todos: responds 201 without persisting the list
postWithoutWrite(f, text, newId) ==
    IF ~Truthy(text)
    THEN Out(f, Response(400, "message", "Todo text is required", <<>>,
                         NoToken, {"handler"}))
    ELSE LET r == readTodos(f)
             newTodo == [id |-> newId, text |-> text, completed |-> FALSE]
         IN  IF ~r.isArray
             THEN Out(r.file, Uncaught({"handler"} \cup r.calls))
             ELSE Out(r.file,
                      Response(201, "todo", "", <<newTodo>>, NoToken,
                               {"handler"} \cup r.calls))

postTodosHandler(f, text, newId) ==
    IF ~Truthy(text)
    THEN Out(f, Response(400, "message", "Todo text is required", <<>>,
                         NoToken, {"handler"}))
    ELSE LET r == readTodos(f)
             newTodo == [id |-> newId, text |-> text, completed |-> FALSE]
         IN  IF ~r.isArray
             THEN Out(r.file, Uncaught({"handler"} \cup r.calls))
             ELSE Out(writeTodos(Append(r.items, newTodo)),
                      Response(201, "todo", "", <<newTodo>>, NoToken,
                               {"handler", "writeTodos"} \cup r.calls))

\* faulty variant of DELETE /todos/:id: the length comparison is left out
deleteWithoutLengthCheck(f, id) ==
    LET r == readTodos(f)
        todos == FilterOut(r.items, id)
    IN  IF ~r.isArray
        THEN Out(r.file, Uncaught({"handler"} \cup r.calls))
        ELSE Out(writeTodos(todos),
                 Response(204, "none", "", <<>>, NoToken,
                          {"handler", "writeTodos"} \cup r.calls))

deleteTodosHandler(f, id) ==
    LET r == readTodos(f)
        todos == FilterOut(r.items, id)
    IN  IF ~r.isArray
        THEN Out(r.file, Uncaught({"handler"} \cup r.calls))
        ELSE IF Len(todos) = Len(r.items)
        THEN Out(r.file, Response(404, "message", "Todo not found", <<>>,
                                  NoToken, {"handler"} \cup r.calls))
        ELSE Out(writeTodos(todos),
                 Response(204, "none", "", <<>>, NoToken,
                          {"handler", "writeTodos"} \cup r.calls))

\* faulty variant of signup: a taken username is answered like a failed validation
signupDuplicateAs400(f, username, password, newId) ==
    IF ~Truthy(username) \/ ~Truthy(password)
    THEN Out(f, Response(400, "message", "username and password are required",
                         <<>>, NoToken, {"handler"}))
    ELSE LET r == readUsers(f)
             newUser == [id |-> newId, username |-> username,
                         password |-> password]
         IN  IF ~r.isArray
             THEN Out(r.file, Uncaught({"handler"} \cup r.calls))
             ELSE IF FindByName(r.items, username) # <<>>
             THEN Out(r.file, Response(400, "message", "username already exists",
                                       <<>>, NoToken, {"handler"} \cup r.calls))
             ELSE Out(writeUsers(Append(r.items, newUser)),
                      Response(201, "token", "", <<>>,
                               <<JwtSign(newId, username, JWT_SECRET)>>,
                               {"handler", "writeUsers"} \cup r.calls))

signupHandler(f, username, password, newId) ==
    IF ~Truthy(username) \/ ~Truthy(password)
    THEN Out(f, Response(400, "message", "username and password are required",
                         <<>>, NoToken, {"handler"}))
    ELSE LET r == readUsers(f)
             newUser == [id |-> newId, username |-> username,
                         password |-> password]
         IN  IF ~r.isArray
             THEN Out(r.file, Uncaught({"handler"} \cup r.calls))
             ELSE IF FindByName(r.items, username) # <<>>
             THEN Out(r.file, Response(409, "message", "username already exists",
                                       <<>>, NoToken, {"handler"} \cup r.calls))
             ELSE Out(writeUsers(Append(r.items, newUser)),
                      Response(201, "token", "", <<>>,
                               <<JwtSign(newId, username, JWT_SECRET)>>,
                               {"handler", "writeUsers"} \cup r.calls))

loginHandler(f, username, password) ==
    IF ~Truthy(username) \/ ~Truthy(password)
    THEN Out(f, Response(400, "message", "username and password are required",
                         <<>>, NoToken, {"handler"}))
    ELSE LET r == readUsers(f)
             user == FindByCredentials(r.items, username, password)
         IN  IF ~r.isArray
             THEN Out(r.file, Uncaught({"handler"} \cup r.calls))
             ELSE IF user = <<>>
             THEN Out(r.file, Response(401, "message", "invalid credentials",
                                       <<>>, NoToken, {"handler"} \cup r.calls))
             ELSE Out(r.file,
                      Response(200, "token", "", <<>>,
                               <<JwtSign(user[1].id, username, JWT_SECRET)>>,
                               {"handler"} \cup r.calls))

\* app.METHOD(path, auth, handler): the handler runs only if auth calls next()
Protected(h, f, out) ==
    LET a == auth(h)
    IN  IF a.next
        THEN Out(out.file, [out.res EXCEPT !.calls = @ \cup a.res.calls])
        ELSE Out(f, a.res)


----------------------------------------------------------------------------
(* src/unnamed/part_000: the same three todo routes, mounted with no auth   *)
(* middleware, over the same file helpers.                                  *)

P0_readTodos(f) ==
    CASE f.kind = "absent" -> Read(TRUE, <<>>, EmptyArray, {"readTodos"})
      [] f.kind = "blank" -> Read(TRUE, <<>>, f, {"readTodos"})
      [] f.kind = "malformed" -> Read(TRUE, <<>>, EmptyArray, {"readTodos"})
      [] f.kind = "nonarray" -> Read(FALSE, <<>>, f, {"readTodos"})
      [] OTHER -> Read(TRUE, f.items, f, {"readTodos"})

P0_writeTodos(todos) == Stringify(todos)

P0_getTodosHandler(f) ==
    LET r == P0_readTodos(f)
    IN  Out(r.file,
            Response(200, IF r.isArray THEN "list" ELSE "raw", "", r.items,
                     NoToken, {"handler"} \cup r.calls))

P0_postTodosHandler(f, text, newId) ==
    IF ~Truthy(text)
    THEN Out(f, Response(400, "message", "Todo text is required", <<>>,
                         NoToken, {"handler"}))
    ELSE LET r == P0_readTodos(f)
             newTodo == [id |-> newId, text |-> text, completed |-> FALSE]
         IN  IF ~r.isArray
             THEN Out(r.file, Uncaught({"handler"} \cup r.calls))
             ELSE Out(P0_writeTodos(Append(r.items, newTodo)),
                      Response(201, "todo", "", <<newTodo>>, NoToken,
                               {"handler", "writeTodos"} \cup r.calls))

P0_deleteTodosHandler(f, id) ==
    LET r == P0_readTodos(f)
        todos == FilterOut(r.items, id)
    IN  IF ~r.isArray
        THEN Out(r.file, Uncaught({"handler"} \cup r.calls))
        ELSE IF Len(todos) = Len(r.items)
        THEN Out(r.file, Response(404, "message", "Todo not found", <<>>,
                                  NoToken, {"handler"} \cup r.calls))
        ELSE Out(P0_writeTodos(todos),
                 Response(204, "none", "", <<>>, NoToken,
                          {"handler", "writeTodos"} \cup r.calls))

----------------------------------------------------------------------------
(* Inputs of the requests *)

Servers == {"index.js", "part_000"}

ValidToken == Jwt(TRUE, JWT_SECRET, FALSE, "u1", JStr("alice"))
ExpiredToken == Jwt(TRUE, JWT_SECRET, TRUE, "u1", JStr("alice"))
ForgedToken == Jwt(TRUE, "another-secret", FALSE, "u1", JStr("alice"))

Header(p, r) == [prefix |-> p, rest |-> r]

Headers ==
    { NoHeader,
      Header("Basic ", <<ValidToken>>),
      Header("Bearer ", <<>>),
      Header("Bearer ", <<ForgedToken>>),
      Header("Bearer ", <<ExpiredToken>>),
      Header("Bearer ", <<ValidToken>>) }

Texts == {JUndef, JStr(""), JStr("buy milk"), JNum("5")}
TodoIds == {"i1", "i2"}
ParamIds == TodoIds \cup {"zz"}
Usernames == {JUndef, JStr(""), JStr("alice"), JObj("[1]")}
Passwords == {JUndef, JStr("p"), JStr("q")}
UserIds == {"u1", "u2"}

TextBody(t) == [NoBody EXCEPT !.text = t]
CredBody(u, p) == [NoBody EXCEPT !.username = u, !.password = p]

----------------------------------------------------------------------------
(* State machine *)

Init ==
    /\ server \in Servers
    /\ todosFile \in {Absent, EmptyArray}
    /\ usersFile \in {Absent, EmptyArray}
    /\ req = Request("", NoHeader, "", NoBody)
    /\ res = Response(0, "none", "", <<>>, NoToken, {})
    /\ posted = {}

\* files left behind in any condition by an earlier run or an editor
InitCorrupt ==
    /\ server \in Servers
    /\ todosFile \in {Absent, Blank, Malformed, NonArray, EmptyArray}
    /\ usersFile \in {Absent, Blank, Malformed, NonArray, EmptyArray}
    /\ req = Request("", NoHeader, "", NoBody)
    /\ res = Response(0, "none", "", <<>>, NoToken, {})
    /\ posted = {}

AfterPost(o) == IF o.res.status = 201 THEN posted \cup {o.res.items[1]} ELSE posted
AfterDelete(o, id) ==
    IF o.res.status = 204 THEN {k \in posted : k.id # id} ELSE posted

GetTodos ==
    /\ server = "index.js"
    /\ \E h \in Headers :
         \E o \in {Protected(h, todosFile, getTodosHandler(todosFile))} :
             /\ todosFile' = o.file
             /\ req' = Request("GET /todos", h, "", NoBody)
             /\ res' = o.res
    /\ UNCHANGED <<server, usersFile, posted>>

PostTodos ==
    /\ server = "index.js"
    /\ \E h \in Headers, text \in Texts, newId \in TodoIds :
         \E o \in {Protected(h, todosFile, postTodosHandler(todosFile, text, newId))} :
             /\ Len(o.file.items) <= MaxTodos
             /\ todosFile' = o.file
             /\ req' = Request("POST /todos", h, "", TextBody(text))
             /\ res' = o.res
             /\ posted' = AfterPost(o)
    /\ UNCHANGED <<server, usersFile>>

DeleteTodos ==
    /\ server = "index.js"
    /\ \E h \in Headers, id \in ParamIds :
         \E o \in {Protected(h, todosFile, deleteTodosHandler(todosFile, id))} :
             /\ todosFile' = o.file
             /\ req' = Request("DELETE /todos/:id", h, id, NoBody)
             /\ res' = o.res
             /\ posted' = AfterDelete(o, id)
    /\ UNCHANGED <<server, usersFile>>

Signup ==
    /\ server = "index.js"
    /\ \E h \in {NoHeader}, username \in Usernames, password \in Passwords,
          newId \in UserIds :
         \E o \in {signupHandler(usersFile, username, password, newId)} :
             /\ Len(o.file.items) <= MaxUsers
             /\ usersFile' = o.file
             /\ req' = Request("POST /auth/signup", h, "",
                               CredBody(username, password))
             /\ res' = o.res
    /\ UNCHANGED <<server, todosFile, posted>>

Login ==
    /\ server = "index.js"
    /\ \E h \in {NoHeader}, username \in Usernames, password \in Passwords :
         \E o \in {loginHandler(usersFile, username, password)} :
             /\ usersFile' = o.file
             /\ req' = Request("POST /auth/login", h, "",
                               CredBody(username, password))
             /\ res' = o.res
    /\ UNCHANGED <<server, todosFile, posted>>

P0_GetTodos ==
    /\ server = "part_000"
    /\ \E h \in Headers :
         \E o \in {P0_getTodosHandler(todosFile)} :
             /\ todosFile' = o.file
             /\ req' = Request("GET /todos", h, "", NoBody)
             /\ res' = o.res
    /\ UNCHANGED <<server, usersFile, posted>>

P0_PostTodos ==
    /\ server = "part_000"
    /\ \E h \in Headers, text \in Texts, newId \in TodoIds :
         \E o \in {P0_postTodosHandler(todosFile, text, newId)} :
             /\ Len(o.file.items) <= MaxTodos
             /\ todosFile' = o.file
             /\ req' = Request("POST /todos", h, "", TextBody(text))
             /\ res' = o.res
             /\ posted' = AfterPost(o)
    /\ UNCHANGED <<server, usersFile>>

P0_DeleteTodos ==
    /\ server = "part_000"
    /\ \E h \in Headers, id \in ParamIds :
         \E o \in {P0_deleteTodosHandler(todosFile, id)} :
             /\ todosFile' = o.file
             /\ req' = Request("DELETE /todos/:id", h, id, NoBody)
             /\ res' = o.res
             /\ posted' = AfterDelete(o, id)
    /\ UNCHANGED <<server, usersFile>>

JointBound == Len(todosFile.items) + Len(usersFile.items) <= MaxJoint

NextTodos ==
    \/ GetTodos
    \/ PostTodos
    \/ DeleteTodos
    \/ P0_GetTodos
    \/ P0_PostTodos
    \/ P0_DeleteTodos

NextAuth ==
    \/ Signup
    \/ Login

Next ==
    \/ GetTodos /\ JointBound'
    \/ PostTodos /\ JointBound'
    \/ DeleteTodos /\ JointBound'
    \/ Signup /\ JointBound'
    \/ Login /\ JointBound'
    \/ P0_GetTodos /\ JointBound'
    \/ P0_PostTodos /\ JointBound'
    \/ P0_DeleteTodos /\ JointBound'

\* the whole repository, both stores together
Spec == Init /\ [][Next]_vars
\* the todo routes alone, with longer lists
SpecTodos == Init /\ [][NextTodos]_vars
\* signup and login alone, with more users
SpecAuth == Init /\ [][NextAuth]_vars
\* the whole repository over files found in any condition
SpecCorrupt == InitCorrupt /\ [][Next]_vars


----------------------------------------------------------------------------
(* Vocabulary of the properties *)

TodoRoutes == {"GET /todos", "POST /todos", "DELETE /todos/:id"}
SuccessCodes == {200, 201, 204}

\* the request carries "Bearer <token>" and the token's signature and expiry
\* verify against the shared secret
Authenticated(h) ==
    /\ h.prefix = "Bearer "
    /\ Len(h.rest) = 1
    /\ h.rest[1].wellFormed
    /\ h.rest[1].secret = JWT_SECRET
    /\ ~h.rest[1].expired

Range(xs) == {xs[i] : i \in 1..Len(xs)}

\* the todos with another id, in their stored order
Others(todos, id) == SelectSeq(todos, LAMBDA t : t.id # id)

Answered == req.route # ""

----------------------------------------------------------------------------
(* C1: a request to GET /todos, POST /todos or DELETE /todos/:id that      *)
(* carries no Authorization header, a header that is not "Bearer ...", or  *)
(* a token whose signature or expiry fails, is answered 401; the route     *)
(* handler does not run and the todos store is neither read nor written.   *)
C1_ProtectedRoutesReject ==
    (req.route \in TodoRoutes /\ ~Authenticated(req.header)) =>
        /\ res.status = 401
        /\ res.calls \cap {"handler", "readTodos", "writeTodos"} = {}

\* C1 for the server of src/index.js alone, the todos file included
C1_IndexJsRejects ==
    [][(server = "index.js" /\ req'.route \in TodoRoutes
            /\ ~Authenticated(req'.header)) =>
          /\ res'.status = 401
          /\ res'.calls \cap {"handler", "readTodos", "writeTodos"} = {}
          /\ todosFile' = todosFile]_vars

C1_IndexJsRejected ==
    /\ server = "index.js"
    /\ req.route = "POST /todos"
    /\ ~Authenticated(req.header)
    /\ ~Truthy(req.body.text)
    /\ res.status = 401

----------------------------------------------------------------------------
(* C2: a signup whose username equals the username of a stored user is     *)
(* rejected with an error response, issues no token and leaves the users   *)
(* store unchanged.                                                        *)
C2_SignupRejectsDuplicate ==
    [][(/\ req'.route = "POST /auth/signup"
        /\ \E u \in Range(usersFile.items) : u.username = req'.body.username) =>
          /\ res'.status >= 400
          /\ res'.token = NoToken
          /\ usersFile'.items = usersFile.items]_vars

\* C2 for usernames that are strings
C2_StringDuplicateRejected ==
    [][(/\ req'.route = "POST /auth/signup"
        /\ req'.body.username.type = "string"
        /\ \E u \in Range(usersFile.items) : u.username = req'.body.username) =>
          /\ res'.status >= 400
          /\ res'.token = NoToken
          /\ usersFile'.items = usersFile.items]_vars

----------------------------------------------------------------------------
(* C3: a login whose (username, password) pair matches the pair of no      *)
(* stored user is answered 401 with no token, and the users store is       *)
(* unchanged.                                                              *)
NoStoredPair(users, b) ==
    ~\E u \in Range(users) :
        u.username = b.username /\ u.password = b.password

C3_LoginRejectsWrongCredentials ==
    [][(req'.route = "POST /auth/login" /\ NoStoredPair(usersFile.items, req'.body)) =>
          /\ res'.status = 401
          /\ res'.token = NoToken
          /\ usersFile'.items = usersFile.items]_vars

(* C3, amended: such a login is answered 401 when both username and        *)
(* password are present and non-empty, and 400 when either is missing or   *)
(* empty; either way no token is issued and the users store is unchanged.  *)
C3_LoginRejects401Or400 ==
    [][(req'.route = "POST /auth/login" /\ NoStoredPair(usersFile.items, req'.body)) =>
          /\ res'.status =
                IF Truthy(req'.body.username) /\ Truthy(req'.body.password)
                THEN 401 ELSE 400
          /\ res'.token = NoToken
          /\ "writeUsers" \notin res'.calls
          /\ usersFile'.items = usersFile.items]_vars

\* a known username with another password has been refused
C3_WrongPasswordRefused ==
    /\ req.route = "POST /auth/login"
    /\ res.status = 401
    /\ \E u \in Range(usersFile.items) :
          u.username = req.body.username /\ u.password # req.body.password

----------------------------------------------------------------------------
(* C4: an authenticated DELETE /todos/:id whose id matches no stored todo  *)
(* is answered 404 and leaves the todos store as it was: same items, same  *)
(* order, writeTodos not called, an existing file untouched.               *)
C4_DeleteMissingIs404 ==
    [][(/\ req'.route = "DELETE /todos/:id"
        /\ Authenticated(req'.header)
        /\ \A t \in Range(todosFile.items) : t.id # req'.id) =>
          /\ res'.status = 404
          /\ "writeTodos" \notin res'.calls
          /\ todosFile'.items = todosFile.items
          /\ (todosFile.kind = "array" => todosFile' = todosFile)]_vars

C4_MissingDeleted ==
    /\ req.route = "DELETE /todos/:id"
    /\ Authenticated(req.header)
    /\ res.status = 404
    /\ Len(todosFile.items) >= 2

----------------------------------------------------------------------------
(* C5: a todo created by a 201 POST /todos with text t is                  *)
(* {id, text: t, completed: false} and the last element of the store;      *)
(* every authenticated GET /todos returns the stored list, which contains  *)
(* every created todo whose id no DELETE has since removed.                *)
C5_CreatedRoundTrips ==
    /\ (req.route = "POST /todos" /\ res.status = 201) =>
          /\ Len(res.items) = 1
          /\ res.items[1].text = req.body.text
          /\ res.items[1].completed = FALSE
          /\ Len(todosFile.items) >= 1
          /\ todosFile.items[Len(todosFile.items)] = res.items[1]
    /\ (req.route = "GET /todos" /\ Authenticated(req.header)) =>
          /\ res.status = 200
          /\ res.items = todosFile.items
          /\ posted \subseteq Range(res.items)

C5_GetAfterPosts ==
    /\ req.route = "GET /todos"
    /\ Authenticated(req.header)
    /\ Cardinality(posted) >= 2
    /\ Len(res.items) >= 2

----------------------------------------------------------------------------
MissingCredentials ==
    /\ req.route \in {"POST /auth/signup", "POST /auth/login"}
    /\ ~Truthy(req.body.username) \/ ~Truthy(req.body.password)

MissingText ==
    /\ req.route = "POST /todos"
    /\ server = "index.js" => Authenticated(req.header)
    /\ ~Truthy(req.body.text)

----------------------------------------------------------------------------
(* C7: when a request reads todos.json or users.json and the content is    *)
(* not a valid JSON array (malformed, blank, or JSON of another type), the *)
(* read yields an empty array, the file afterwards holds an empty JSON     *)
(* array or what the request wrote over it, and no error reaches the       *)
(* client.                                                                 *)
Corrupt(f) == f.kind \in {"blank", "malformed", "nonarray"}

C7_CorruptFilesReset ==
    [][/\ (Corrupt(todosFile) /\ "readTodos" \in res'.calls) =>
            /\ todosFile'.kind = "array"
            /\ res'.status \in SuccessCodes \cup {400, 401, 404, 409}
            /\ res'.kind # "raw"
       /\ (Corrupt(usersFile) /\ "readUsers" \in res'.calls) =>
            /\ usersFile'.kind = "array"
            /\ res'.status \in SuccessCodes \cup {400, 401, 404, 409}]_vars

----------------------------------------------------------------------------
(* C8: every stored todo has a text that is a non-empty string and         *)
(* completed = false.                                                      *)
C8_TodoShape ==
    \A t \in Range(todosFile.items) :
        /\ t.text.type = "string"
        /\ t.text.val # ""
        /\ t.completed = FALSE

----------------------------------------------------------------------------
(* C9: every stored username is a string and no two stored users have the  *)
(* same username.                                                          *)
C9_UsernamesUnique ==
    /\ \A u \in Range(usersFile.items) : u.username.type = "string"
    /\ \A i, j \in 1..Len(usersFile.items) :
          i # j => usersFile.items[i].username # usersFile.items[j].username

----------------------------------------------------------------------------
(* C10: an authenticated DELETE /todos/:id whose id matches a stored todo  *)
(* is answered 204; afterwards no stored todo has that id, the todos with  *)
(* another id are all stored, unmodified and in their order, and the users *)
(* store is untouched.                                                     *)
C10_DeleteRemovesOnlyTarget ==
    [][(/\ req'.route = "DELETE /todos/:id"
        /\ Authenticated(req'.header)
        /\ \E t \in Range(todosFile.items) : t.id = req'.id) =>
          /\ res'.status = 204
          /\ todosFile'.kind = "array"
          /\ \A t \in Range(todosFile'.items) : t.id # req'.id
          /\ todosFile'.items = Others(todosFile.items, req'.id)
          /\ usersFile' = usersFile]_vars

C10_DeletedAmongOthers ==
    /\ req.route = "DELETE /todos/:id"
    /\ Authenticated(req.header)
    /\ res.status = 204
    /\ Len(todosFile.items) >= 2

=============================================================================
